---- MODULE Spec2Model ----
(***************************************************************************)
(* A model of SERTEMP_challenge_CRPS_score.py: crps (the mean continuous   *)
(* ranked probability score of 21 quantile predictions per row, integrated *)
(* over 23 points) and coverage_report (the empirical coverage of the ten  *)
(* symmetric prediction intervals).                                        *)
(*                                                                         *)
(* Numbers.  Temperatures are whole degrees (integers); a NaN cell is the  *)
(* code NaN, which compares false with everything as an IEEE NaN does.     *)
(* Everything the code computes from them (levels, the interpolated level, *)
(* the integrals, the score) is an exact fraction [n, d] in lowest terms   *)
(* with d > 0, so equalities between results are equalities of numbers;    *)
(* the rounding of binary floating point is not modelled.                  *)
(***************************************************************************)
EXTENDS Integers, Sequences, FiniteSets, TLC

VARIABLES
    submission,      \* the predictions table: a sequence of rows of cells
    solution,        \* the "Temperature" column of the solution table
    pc,              \* where the running call stands
    err,             \* the exception that ended the call, or "none"
    index,           \* rows processed by crps so far (the iterrows position)
    CRPS,            \* the accumulator of crps, and its returned value
    x_values,        \* locals of the last loop iteration of crps
    y_true,
    LHS_values,
    LHS_quantiles,
    RHS_values,
    RHS_quantiles,
    q_at_y_true,
    LHS_integral,
    RHS_integral,
    i,               \* coverage_report: bands reported so far
    report           \* coverage_report: the lines printed, as records

vars == <<submission, solution, pc, err, index, CRPS, x_values, y_true,
          LHS_values, LHS_quantiles, RHS_values, RHS_quantiles, q_at_y_true,
          LHS_integral, RHS_integral, i, report>>

crpsLocals == <<x_values, y_true, LHS_values, LHS_quantiles, RHS_values,
                RHS_quantiles, q_at_y_true, LHS_integral, RHS_integral>>

-----------------------------------------------------------------------------
(* Exact arithmetic standing for the code's float arithmetic.              *)

Abs(a) == IF a < 0 THEN -a ELSE a

RECURSIVE GCD(_, _)
GCD(a, b) == IF b = 0 THEN a ELSE GCD(b, a % b)

\* the fraction n/d (d # 0) in lowest terms with a positive denominator
Rat(n, d) ==
    LET g == GCD(Abs(n), Abs(d))
        s == IF d < 0 THEN -1 ELSE 1
    IN  [n |-> s * (n \div g), d |-> s * (d \div g)]

RInt(a) == [n |-> a, d |-> 1]

Zero == RInt(0)

One == RInt(1)

Half == Rat(1, 2)

RAdd(a, b) ==
    LET g == GCD(a.d, b.d)
    IN  Rat(a.n * (b.d \div g) + b.n * (a.d \div g), (a.d \div g) * b.d)

RNeg(a) == [n |-> -a.n, d |-> a.d]

RSub(a, b) == RAdd(a, RNeg(b))

RMul(a, b) ==
    LET g1 == GCD(Abs(a.n), b.d)
        g2 == GCD(Abs(b.n), a.d)
    IN  Rat((a.n \div g1) * (b.n \div g2), (a.d \div g2) * (b.d \div g1))

\* a / b for b # 0
RDiv(a, b) == RMul(a, Rat(b.d, b.n))

RSq(a) == RMul(a, a)

RGeq(a, b) == RSub(a, b).n >= 0

-----------------------------------------------------------------------------
(* Cells and their comparisons.                                            *)

\* the code of a NaN cell; every temperature of the model is below it
NaN == 1000

\* x < y and x >= y on floats: false as soon as one side is NaN
FLt(x, y) == x # NaN /\ y # NaN /\ x < y

FGe(x, y) == x # NaN /\ y # NaN /\ x >= y

FLe(x, y) == x # NaN /\ y # NaN /\ x <= y

-----------------------------------------------------------------------------
(* list.sort() of CPython on a list shorter than 64: the leading run is    *)
(* found (count_run), reversed when strictly descending, and the rest is   *)
(* inserted one by one by binary search (binarysort), every comparison     *)
(* being the float "<".  On NaN-free lists this is the ascending stable    *)
(* sort; with a NaN in the list "<" is no order and the result is whatever *)
(* these steps leave.                                                      *)

Reverse(s) == [k \in 1..Len(s) |-> s[Len(s) + 1 - k]]

\* length of the leading run of s (Len(s) >= 2), descending or not
CountRun(s, descending) ==
    LET goes(k) == IF descending THEN FLt(s[k], s[k-1]) ELSE ~FLt(s[k], s[k-1])
    IN  CHOOSE n \in 2..Len(s) :
            /\ \A k \in 3..n : goes(k)
            /\ n = Len(s) \/ ~goes(n + 1)

\* the slot in s[1..start-1] where binarysort puts pivot
RECURSIVE BinarySlot(_, _, _, _)
BinarySlot(s, pivot, l, r) ==
    IF l >= r THEN l
    ELSE LET p == l + ((r - l) \div 2)
         IN  IF FLt(pivot, s[p]) THEN BinarySlot(s, pivot, l, p)
                                 ELSE BinarySlot(s, pivot, p + 1, r)

RECURSIVE BinarySort(_, _)
BinarySort(s, start) ==
    IF start > Len(s) THEN s
    ELSE LET pivot == s[start]
             l == BinarySlot(s, pivot, 1, start)
             t == [k \in 1..Len(s) |->
                     IF k < l THEN s[k]
                     ELSE IF k = l THEN pivot
                     ELSE IF k <= start THEN s[k-1]
                     ELSE s[k]]
         IN  BinarySort(t, start + 1)

\* (a slip: the list is left as it came)
ListSortMissing(s) == s

ListSort(s) ==
    IF Len(s) < 2 THEN s
    ELSE LET descending == FLt(s[2], s[1])
             n == CountRun(s, descending)
             t == IF descending
                  THEN Reverse(SubSeq(s, 1, n)) \o SubSeq(s, n + 1, Len(s))
                  ELSE s
         IN  BinarySort(t, n + 1)

-----------------------------------------------------------------------------
(* crps: the constants and one iteration of its loop.                      *)

\* the 23 competition-fixed levels, in fortieths (0.025 = 1/40)
quantileFortieths ==
    <<0, 1, 2, 4, 6, 8, 10, 12, 14, 16, 18, 20, 22, 24, 26, 28, 30, 32, 34,
      36, 38, 39, 40>>

quantiles == [k \in 1..23 |-> Rat(quantileFortieths[k], 40)]

\* the extremal 100% coverage x-values
LowerExtremal == -30

UpperExtremal == 60

\* submission_tmp: the copy with "Temperature" inserted as column 0
SubmissionTmp(sub, sol) == [r \in 1..Len(sub) |-> <<sol[r]>> \o sub[r]]

\* row[-n:], a positional slice: the whole row when it has fewer than n cells
LastCells(row, n) ==
    SubSeq(row, IF Len(row) > n THEN Len(row) - n + 1 ELSE 1, Len(row))

\* (a slip: the extremal values are not added)
SortedXValuesNoExtremal(row) == ListSort(LastCells(row, Len(quantiles) - 2))

\* the x values of a row: its last len(quantiles)-2 cells, the two extremal
\* values appended, sorted
SortedXValues(row) ==
    ListSort(LastCells(row, Len(quantiles) - 2)
             \o <<LowerExtremal, UpperExtremal>>)

Indices(s) == [k \in 1..Len(s) |-> k]

\* (slips: "<=" for "<" on the left, ">" for ">=" on the right)
LHSKeysInclusive(xs, y) == SelectSeq(Indices(xs), LAMBDA k : FLe(xs[k], y))

RHSKeysStrict(xs, y) == SelectSeq(Indices(xs), LAMBDA k : FLt(y, xs[k]))

\* the positions of the sorted list whose value is below / not below y
LHSKeys(xs, y) == SelectSeq(Indices(xs), LAMBDA k : FLt(xs[k], y))

RHSKeys(xs, y) == SelectSeq(Indices(xs), LAMBDA k : FGe(xs[k], y))

ValuesAt(xs, keys) == [k \in 1..Len(keys) |-> xs[keys[k]]]

\* (a slip: the level one position further)
QuantilesAtShifted(keys) ==
    [k \in 1..Len(keys) |-> quantiles[IF keys[k] < 23 THEN keys[k] + 1 ELSE 23]]

\* the level of a value is the level at its position in the SORTED list
QuantilesAt(keys) == [k \in 1..Len(keys) |-> quantiles[keys[k]]]

\* ((y2-y1)*(y_true-x1)/(x2-x1))+y1, for x2 # x1
Interpolate(x1, y1, x2, y2, y) ==
    RAdd(RDiv(RMul(RSub(y2, y1), RInt(y - x1)), RInt(x2 - x1)), y1)

\* T[lo] + ... + T[hi]; the terms are added pairwise, halving the range, which
\* is the same sum as the loop's in exact arithmetic
RECURSIVE SumTerms(_, _, _)
SumTerms(T, lo, hi) ==
    IF lo > hi THEN Zero
    ELSE IF lo = hi THEN T[lo]
    ELSE LET mid == (lo + hi) \div 2
         IN  RAdd(SumTerms(T, lo, mid), SumTerms(T, mid + 1, hi))

\* 0.5 * (V[k+1]-V[k]) * (Q[k]**2 + Q[k+1]**2), the k-th trapezium of CDF**2
LHSTrapezium(V, Q, k) ==
    RMul(RMul(Half, RInt(V[k+1] - V[k])), RAdd(RSq(Q[k]), RSq(Q[k+1])))

\* (a slip: the left integrand copied to the right)
RHSTrapeziumCopied(V, Q, k) ==
    RMul(RMul(Half, RInt(V[k+1] - V[k])), RAdd(RSq(Q[k]), RSq(Q[k+1])))

\* 0.5 * (V[k+1]-V[k]) * ((1-Q[k])**2 + (1-Q[k+1])**2), of (1-CDF)**2
RHSTrapezium(V, Q, k) ==
    RMul(RMul(Half, RInt(V[k+1] - V[k])),
         RAdd(RSq(RSub(One, Q[k])), RSq(RSub(One, Q[k+1]))))

\* the loops over range(len(values)-1)
LHSIntegral(V, Q) ==
    SumTerms([k \in 1..Len(V) - 1 |-> LHSTrapezium(V, Q, k)], 1, Len(V) - 1)

RHSIntegral(V, Q) ==
    SumTerms([k \in 1..Len(V) - 1 |-> RHSTrapezium(V, Q, k)], 1, Len(V) - 1)

\* One iteration on a row of submission_tmp: the locals it leaves and the
\* exception it raises, if any.  The partitions are as they stand when the
\* iteration ends: with (y_true, q_at_y_true) added when it got that far.
RowBody(row) ==
    LET y  == row[1]
        xs == SortedXValues(row)
        LK == LHSKeys(xs, y)
        RK == RHSKeys(xs, y)
        LV == ValuesAt(xs, LK)
        LQ == QuantilesAt(LK)
        RV == ValuesAt(xs, RK)
        RQ == QuantilesAt(RK)
        early(e) == [err |-> e, x |-> xs, y |-> y, LV |-> LV, LQ |-> LQ,
                     RV |-> RV, RQ |-> RQ]
    IN  IF LK = <<>> \/ RK = <<>> THEN early("IndexError")
        ELSE
        LET x1 == LV[Len(LV)]
            y1 == LQ[Len(LQ)]
            x2 == RV[1]
            y2 == RQ[1]
        IN  IF x2 = x1 THEN early("ZeroDivisionError")
            ELSE
            LET q   == Interpolate(x1, y1, x2, y2, y)
                LV2 == Append(LV, y)
                LQ2 == Append(LQ, q)
                RV2 == <<y>> \o RV
                RQ2 == <<q>> \o RQ
            IN  [err |-> "none", x |-> xs, y |-> y,
                 LV |-> LV2, LQ |-> LQ2, RV |-> RV2, RQ |-> RQ2, q |-> q,
                 L |-> LHSIntegral(LV2, LQ2),
                 R |-> RHSIntegral(RV2, RQ2)]

\* (a slip: "=" for "+=")
AccumulateOverwrite(total, L, R) == RAdd(L, R)

\* CRPS += (LHS_integral + RHS_integral)
Accumulate(total, L, R) == RAdd(total, RAdd(L, R))

\* CRPS/len(submission)
MeanOf(total, n) == RDiv(total, RInt(n))

-----------------------------------------------------------------------------
(* The tables a call is given.                                             *)

\* a local that no statement has assigned yet
Unbound == [n |-> 0, d |-> 0]

\* largest batch handed to crps
MaxRows == 3

\* largest step between neighbouring quantile predictions of a symmetric row
MaxStep == 5

Temps == {-35, -30, -25, 0, 15, 55, 60, 65}

Cells == Temps \cup {NaN}

Truths == {-35, -30, -25, 0, 15, 20, 55, 60, 65, NaN}

\* 21 equal predictions
ConstRow(v) == [k \in 1..21 |-> v]

\* predictions symmetric around c: the median is c, the pair of levels q and
\* 1-q lies s * max(0, 11 - j - z) below and above c (j = 1 for 0.025/0.975,
\* j = 10 for 0.45/0.55), so the z innermost pairs coincide with the median
SymRow(c, s, z) ==
    LET d(j) == IF 11 - j - z > 0 THEN s * (11 - j - z) ELSE 0
    IN  [k \in 1..21 |-> IF k <= 10 THEN c - d(k)
                         ELSE IF k = 11 THEN c
                         ELSE c + d(22 - k)]

\* predictions in no order: a, b, eighteen times c, b
FramedRow(a, b, c) ==
    [k \in 1..21 |-> IF k = 1 THEN a ELSE IF k = 2 \/ k = 21 THEN b ELSE c]

SymRows == {SymRow(c, s, z) : c \in {0, 15, 20}, s \in 0..MaxStep, z \in {0, 4, 10}}

Rows21 ==
    {ConstRow(v) : v \in Cells}
    \cup SymRows
    \cup {FramedRow(a, b, c) : a \in Cells, b \in Cells, c \in {-25, 0, 60}}

\* the rows of the batches: a (predictions, ground truth) pair each
BatchRows ==
    { <<ConstRow(0), 0>>, <<ConstRow(65), 15>>, <<SymRow(15, 1, 0), 15>>,
      <<SymRow(0, 2, 4), 20>>, <<FramedRow(55, 0, -25), -25>>,
      <<ConstRow(0), -30>> }

\* tables whose rows are narrower or wider than the 21 predictions
OddWidths == {0, 10, 20, 22}

Resize(row, w) == IF w > Len(row) THEN <<7>> \o row ELSE LastCells(row, w)

InitLocals ==
    /\ err = "none"
    /\ index = 0
    /\ CRPS = Unbound
    /\ x_values = <<>>
    /\ y_true = Unbound
    /\ LHS_values = <<>>
    /\ LHS_quantiles = <<>>
    /\ RHS_values = <<>>
    /\ RHS_quantiles = <<>>
    /\ q_at_y_true = Unbound
    /\ LHS_integral = Unbound
    /\ RHS_integral = Unbound
    /\ i = 0
    /\ report = <<>>

\* one row of 21 predictions
InitOneRow ==
    \E row \in Rows21, y \in Truths :
        /\ submission = <<row>>
        /\ solution = <<y>>

\* batches of 0 to MaxRows rows
InitBatch ==
    \E n \in 0..MaxRows : \E t \in [1..n -> BatchRows] :
        /\ submission = [r \in 1..n |-> t[r][1]]
        /\ solution = [r \in 1..n |-> t[r][2]]

\* one row of another width
InitOddWidth ==
    \E row \in SymRows \cup {ConstRow(0), ConstRow(65)}, w \in OddWidths,
       y \in Truths :
        /\ submission = <<Resize(row, w)>>
        /\ solution = <<y>>

\* a solution table one row longer than the predictions table
InitMismatch ==
    \E n \in 0..1 :
        /\ submission = [r \in 1..n |-> ConstRow(0)]
        /\ solution = [r \in 1..n + 1 |-> 0]

Init ==
    /\ pc = "crps"
    /\ InitLocals
    /\ InitOneRow \/ InitBatch \/ InitOddWidth \/ InitMismatch

-----------------------------------------------------------------------------
(* crps(submission, solution)                                              *)

\* up to the loop: the copy, the inserted column (pandas refuses a column of
\* another length), CRPS = 0
CrpsCall ==
    /\ pc = "crps"
    /\ IF Len(solution) # Len(submission)
       THEN /\ pc' = "raised"
            /\ err' = "ValueError"
            /\ UNCHANGED CRPS
       ELSE /\ pc' = "loop"
            /\ CRPS' = Zero
            /\ UNCHANGED err
    /\ UNCHANGED <<submission, solution, index, crpsLocals, i, report>>

\* one iteration of the loop over submission_tmp.iterrows()
CrpsRow ==
    /\ pc = "loop"
    /\ index < Len(submission)
    /\ \E b \in {RowBody(SubmissionTmp(submission, solution)[index + 1])} :
           /\ x_values' = b.x
           /\ y_true' = b.y
           /\ LHS_values' = b.LV
           /\ LHS_quantiles' = b.LQ
           /\ RHS_values' = b.RV
           /\ RHS_quantiles' = b.RQ
           /\ IF b.err = "none"
              THEN /\ q_at_y_true' = b.q
                   /\ LHS_integral' = b.L
                   /\ RHS_integral' = b.R
                   /\ CRPS' = Accumulate(CRPS, b.L, b.R)
                   /\ index' = index + 1
                   /\ UNCHANGED <<pc, err>>
              ELSE /\ pc' = "raised"
                   /\ err' = b.err
                   /\ UNCHANGED <<q_at_y_true, LHS_integral, RHS_integral,
                                  CRPS, index>>
    /\ UNCHANGED <<submission, solution, i, report>>

\* after the loop: the mean, a division by len(submission)
CrpsReturn ==
    /\ pc = "loop"
    /\ index = Len(submission)
    /\ IF Len(submission) = 0
       THEN /\ pc' = "raised"
            /\ err' = "ZeroDivisionError"
            /\ UNCHANGED CRPS
       ELSE /\ pc' = "returned"
            /\ CRPS' = MeanOf(CRPS, Len(submission))
            /\ UNCHANGED err
    /\ UNCHANGED <<submission, solution, index, crpsLocals, i, report>>

Next == CrpsCall \/ CrpsRow \/ CrpsReturn

Spec == Init /\ [][Next]_vars

-----------------------------------------------------------------------------
(* coverage_report(submission, solution)                                   *)

coverages == <<95, 90, 80, 70, 60, 50, 40, 30, 20, 10>>

N == Len(coverages)

\* (a slip: 2N - i for 2N + 1 - i)
LowerColOffByOne(k) == 2 * N - k

\* lower_col, upper_col of the band at (0-based) position k of coverages
LowerCol(k) == 2 * N + 1 - k

UpperCol(k) == k + 1

Width(sub) == Len(sub[1])

\* submission.iloc[:, -c], for 1 <= c <= Width(sub)
ColumnFromEnd(sub, c) == [r \in 1..Len(sub) |-> sub[r][Width(sub) - c + 1]]

\* the rows counted by mean_coverage: (y_pred_low <= y_true) & (y_pred_up >= y_true)
Covered(low, y, up) == {r \in 1..Len(y) : FLe(low[r], y[r]) /\ FGe(up[r], y[r])}

\* round(k/n * 100, 2) in hundredths of a percent.  The float is rounded to the
\* nearest hundredth; where k/n*100 lies exactly halfway between two
\* hundredths, the binary value of the float decides, and both are allowed.
RoundedPercent(k, n) ==
    LET lo  == (10000 * k) \div n
        rem == (10000 * k) % n
    IN  IF 2 * rem < n THEN {lo}
        ELSE IF 2 * rem > n THEN {lo + 1}
        ELSE {lo, lo + 1}

\* (a slip: ">" for ">=")
VerdictStrict(actual, coverage) == IF actual > 100 * coverage THEN "PASS" ELSE "FAIL"

\* actual_coverage >= coverages[i], actual in hundredths of a percent
Verdict(actual, coverage) == IF actual >= 100 * coverage THEN "PASS" ELSE "FAIL"

\* largest small table handed to coverage_report
MaxCovRows == 4

\* a table large enough for the rounding to two decimals to matter
BigRows == 1019

\* the 21 predictions -10, -9, ..., 10: the band at position k is [k-10, 10-k]
RampRow == [k \in 1..21 |-> k - 11]

\* n ramp rows of width w; the ground truth is a on the first k rows, b after
CovTable(n, k, a, b, w) ==
    [sub |-> [r \in 1..n |-> Resize(RampRow, w)],
     sol |-> [r \in 1..n |-> IF r <= k THEN a ELSE b]]

CovTruths == {<<0, 11>>, <<3, 11>>, <<10, NaN>>, <<10, -11>>, <<0, 3>>, <<7, 10>>}

CovShapes ==
    {<<n, k, 21>> : n \in (1..MaxCovRows) \cup {10, 20}, k \in 0..20}
    \cup {<<32, 1, 21>>}
    \cup {<<BigRows, (c * BigRows) \div 100 + e, 21>> :
              c \in {95, 90, 50}, e \in {-1, 0, 1}}
    \cup {<<2, k, w>> : k \in 0..2, w \in {20, 22}}

InitCov ==
    /\ pc = "coverage"
    /\ InitLocals
    /\ \/ \E sh \in CovShapes, ab \in CovTruths :
            /\ sh[2] <= sh[1]
            /\ submission = CovTable(sh[1], sh[2], ab[1], ab[2], sh[3]).sub
            /\ solution = CovTable(sh[1], sh[2], ab[1], ab[2], sh[3]).sol
       \/ /\ submission = CovTable(2, 1, 0, 11, 21).sub
          /\ solution = <<0, 11, 0>>

\* up to the loop
CovCall ==
    /\ pc = "coverage"
    /\ pc' = "bands"
    /\ i' = 0
    /\ report' = <<>>
    /\ UNCHANGED <<submission, solution, err, index, CRPS, crpsLocals>>

\* one iteration of the loop over coverages: one printed line
CovBand ==
    /\ pc = "bands"
    /\ i < N
    /\ LET lower_col == LowerCol(i)
           upper_col == UpperCol(i)
       IN  IF lower_col > Width(submission) \/ upper_col > Width(submission)
           THEN /\ pc' = "raised"
                /\ err' = "IndexError"
                /\ UNCHANGED <<i, report>>
           ELSE IF Len(solution) # Len(submission)
           THEN /\ pc' = "raised"
                /\ err' = "ValueError"
                /\ UNCHANGED <<i, report>>
           ELSE \E k \in {Cardinality(Covered(ColumnFromEnd(submission, lower_col),
                                              solution,
                                              ColumnFromEnd(submission, upper_col)))} :
                \E actual \in RoundedPercent(k, Len(submission)) :
                    /\ report' = Append(report,
                                   [coverage |-> coverages[i + 1],
                                    actual |-> actual,
                                    verdict |-> Verdict(actual, coverages[i + 1]),
                                    lower_col |-> lower_col,
                                    upper_col |-> upper_col])
                    /\ i' = i + 1
                    /\ UNCHANGED <<pc, err>>
    /\ UNCHANGED <<submission, solution, index, CRPS, crpsLocals>>

\* after the last band the function returns None
CovReturn ==
    /\ pc = "bands"
    /\ i = N
    /\ pc' = "reported"
    /\ UNCHANGED <<submission, solution, err, index, CRPS, crpsLocals, i, report>>

NextCov == CovCall \/ CovBand \/ CovReturn

SpecCov == InitCov /\ [][NextCov]_vars

-----------------------------------------------------------------------------
(* Properties.                                                             *)

\* a ground truth strictly between the extremal values
InRange(y) == y # NaN /\ LowerExtremal < y /\ y < UpperExtremal

NoNaN(cells) == \A k \in 1..Len(cells) : cells[k] # NaN

Ascending(cells) == \A k \in 1..Len(cells) - 1 : cells[k] <= cells[k+1]

\* the loop has run an iteration (to its end or to an exception): the locals
\* are those of that iteration
RowSeen == x_values # <<>>

\* the locals are those of an iteration that ran to its end
RowCompleted == pc \in {"loop", "returned"} /\ index >= 1

\* the call was given one row and as many ground truths
OneRow == Len(submission) = 1 /\ Len(solution) = 1

\* the cells the row's x values are taken from, before the sort
Unsorted == LastCells(<<y_true>> \o submission[IF RowCompleted THEN index ELSE index + 1],
                      Len(quantiles) - 2) \o <<LowerExtremal, UpperExtremal>>

\* C1 (as amended): when no predicted value is a NaN, every trapezium span of
\* a completed row is >= 0, so are both integrals, and the value crps returns
\* is >= 0.
C1_NonNegative ==
    /\ (RowCompleted /\ NoNaN(x_values)) =>
          /\ Ascending(LHS_values)
          /\ Ascending(RHS_values)
          /\ RGeq(LHS_integral, Zero)
          /\ RGeq(RHS_integral, Zero)
    /\ (pc = "returned" /\ \A r \in 1..Len(submission) : NoNaN(submission[r])) =>
          RGeq(CRPS, Zero)

\* C1 as stated: whatever the 21 predicted values are, a returned value is >= 0.
C1_AsStated == pc = "returned" => RGeq(CRPS, Zero)

\* a returned score of predictions in no order, some beyond the extremal values
C1_Witness ==
    /\ pc = "returned"
    /\ OneRow
    /\ submission[1] = FramedRow(65, -35, 0)
    /\ InRange(solution[1])
    /\ CRPS # Zero

\* C2 (as amended): one row whose 21 predictions all equal a ground truth y
\* strictly between -30 and 60 raises nothing and returns 9/320 = 0.028125
\* (0.5 * 90 * 0.025^2), whatever y is.
C2_PerfectForecast ==
    (OneRow /\ InRange(solution[1]) /\ submission[1] = ConstRow(solution[1])) =>
        /\ err = "none"
        /\ pc = "returned" => CRPS = Rat(9, 320)

\* C2 as stated: such a row returns exactly 0.
C2_AsStated ==
    (OneRow /\ InRange(solution[1]) /\ submission[1] = ConstRow(solution[1])) =>
        /\ err = "none"
        /\ pc = "returned" => CRPS = Zero

C2_Witness ==
    /\ pc = "returned"
    /\ submission = <<ConstRow(15)>>
    /\ solution = <<15>>
    /\ x_values[2] = 15 /\ x_values[22] = 15

\* the row is symmetric around its ground truth, which is in range
SymmetricCase ==
    /\ OneRow
    /\ InRange(solution[1])
    /\ \E s \in 0..MaxStep, z \in {0, 4, 10} :
          submission[1] = SymRow(solution[1], s, z)

\* C3 (as amended): for predictions symmetric around a ground truth y in
\* (-30, 60), the two integrals are equal when y = 15, the midpoint of the
\* extremal values; when all predictions lie in [-30, 60] they differ by
\* (y - 15) / 1600, the difference of the two outermost trapezia.
C3_Symmetry ==
    (SymmetricCase /\ pc = "returned") =>
        /\ y_true = 15 => LHS_integral = RHS_integral
        /\ (\A k \in 1..21 : /\ submission[1][k] >= LowerExtremal
                             /\ submission[1][k] <= UpperExtremal) =>
              RSub(LHS_integral, RHS_integral) = Rat(y_true - 15, 1600)

\* C3 as stated: the two integrals are equal for every such y.
C3_AsStated ==
    (SymmetricCase /\ pc = "returned") => LHS_integral = RHS_integral

C3_Witness ==
    /\ pc = "returned"
    /\ submission = <<SymRow(15, 2, 0)>>
    /\ solution = <<15>>
    /\ LHS_integral = RHS_integral
    /\ LHS_integral # Zero

\* C4 as stated: a predictions table of fewer than 21 columns, with as many
\* rows as the solution table, makes crps end in an error, never in a number.
C4_NarrowTableFails ==
    (/\ Len(submission) >= 1
     /\ Len(solution) = Len(submission)
     /\ Width(submission) < Len(quantiles) - 2) => pc # "returned"

\* crps called on row r alone
SingleRowCrps(r) ==
    LET b == RowBody(<<solution[r]>> \o submission[r])
    IN  MeanOf(Accumulate(Zero, b.L, b.R), 1)

RECURSIVE SumOfSingles(_)
SumOfSingles(n) == IF n = 0 THEN Zero ELSE RAdd(SumOfSingles(n - 1), SingleRowCrps(n))

\* C5: the value crps returns for N >= 1 rows is the arithmetic mean of the N
\* values it returns for each row alone.
C5_MeanOfRows ==
    pc = "returned" =>
        CRPS = RDiv(SumOfSingles(Len(submission)), RInt(Len(submission)))

C5_Witness ==
    /\ pc = "returned"
    /\ Len(submission) >= 2
    /\ submission[1] # submission[2]
    /\ SingleRowCrps(1) # SingleRowCrps(2)

\* the level of the schedule that the p-th of the 21 prediction columns holds
LevelOfColumn(p) == quantiles[p + 1]

\* C6: on 21-column rows, the band printed for nominal coverage c reads the
\* columns of the levels (100-c)/200 and (100+c)/200, and no band reads the
\* median column, the 11th from the end.
C6_BandColumns ==
    (pc \in {"bands", "reported"} /\ Width(submission) = 21) =>
        \A k \in 1..Len(report) :
            LET line == report[k]
            IN  /\ line.coverage = coverages[k]
                /\ LevelOfColumn(21 - line.lower_col + 1) = Rat(100 - line.coverage, 200)
                /\ LevelOfColumn(21 - line.upper_col + 1) = Rat(100 + line.coverage, 200)
                /\ line.lower_col # 11
                /\ line.upper_col # 11

C6_Witness ==
    /\ pc = "reported"
    /\ Width(submission) = 21
    /\ Len(report) = 10
    /\ report[1].lower_col = 21 /\ report[1].upper_col = 1
    /\ report[10].lower_col = 12 /\ report[10].upper_col = 10

\* rows whose ground truth lies between the columns of the two levels of band c
RowsInBand(c) ==
    LET lowAt == Width(submission) - 21 + (CHOOSE p \in 1..21 : LevelOfColumn(p) = Rat(100 - c, 200))
        upAt  == Width(submission) - 21 + (CHOOSE p \in 1..21 : LevelOfColumn(p) = Rat(100 + c, 200))
    IN  Cardinality({r \in 1..Len(submission) :
                        /\ FLe(submission[r][lowAt], solution[r])
                        /\ FLe(solution[r], submission[r][upAt])})

\* the tables coverage_report reports on: at least 21 columns, as many ground truths as rows
Reportable == Width(submission) >= 21 /\ Len(solution) = Len(submission)

\* C7 (as amended): the line of band c says PASS exactly when the percentage
\* of covered rows, ROUNDED to two decimals, is >= c: above c - 0.005 it is
\* PASS, below c - 0.005 it is FAIL.
C7_VerdictOnRounded ==
    (pc \in {"bands", "reported"} /\ Reportable) =>
        \A k \in 1..Len(report) :
            LET c == report[k].coverage
                n == Len(submission)
                covered == RowsInBand(c)
            IN  /\ 20000 * covered + n > 200 * c * n => report[k].verdict = "PASS"
                /\ 20000 * covered + n < 200 * c * n => report[k].verdict = "FAIL"

\* C7 as stated: PASS exactly when the percentage of covered rows is >= c.
C7_AsStated ==
    (pc \in {"bands", "reported"} /\ Reportable) =>
        \A k \in 1..Len(report) :
            (report[k].verdict = "PASS") <=>
                (100 * RowsInBand(report[k].coverage) >= report[k].coverage * Len(submission))

\* exactly 95% of 20 rows covered at the 95% band: PASS
C7_Witness ==
    /\ pc = "reported"
    /\ Len(submission) = 20
    /\ RowsInBand(95) = 19
    /\ report[1] = [coverage |-> 95, actual |-> 9500, verdict |-> "PASS",
                    lower_col |-> 21, upper_col |-> 1]

\* the sorted x values hold the ground truth twice in a row
TiedAtTruth == \E k \in 1..Len(x_values) - 1 : x_values[k] = y_true /\ x_values[k+1] = y_true

\* C8 (as amended): the interpolation never divides by zero: in every row that
\* gets to it x1 < y_true <= x2, so x2 - x1 > 0; crps raises a division by
\* zero only for a table without rows.
C8_NoZeroDivision ==
    /\ err = "ZeroDivisionError" => Len(submission) = 0
    /\ RowCompleted =>
          /\ FLt(LHS_values[Len(LHS_values) - 1], y_true)
          /\ FGe(RHS_values[2], y_true)
          /\ LHS_values[Len(LHS_values) - 1] < RHS_values[2]

\* C8 as stated: a ground truth that coincides with two adjacent equal
\* predicted values makes the row raise a division by zero.
C8_AsStated ==
    (RowSeen /\ InRange(y_true) /\ TiedAtTruth) => (pc = "raised" /\ err = "ZeroDivisionError")

C8_Witness ==
    /\ pc = "returned"
    /\ OneRow
    /\ TiedAtTruth
    /\ InRange(y_true)
    /\ RHS_values[2] = y_true

\* C9 (as amended): the level paired with a value is the level at the value's
\* position in the list AFTER the sort: the value at position k carries
\* quantiles[k].  The sorted list holds the same cells as before the sort and,
\* without NaN, is ascending and cut in two at the ground truth.
C9_SortedPairing ==
    RowCompleted =>
        LET LK == LHSKeys(x_values, y_true)
            RK == RHSKeys(x_values, y_true)
        IN  /\ Len(LHS_values) = Len(LK) + 1
            /\ Len(RHS_values) = Len(RK) + 1
            /\ \A k \in 1..Len(LK) : /\ LHS_values[k] = x_values[LK[k]]
                                     /\ LHS_quantiles[k] = quantiles[LK[k]]
            /\ \A k \in 1..Len(RK) : /\ RHS_values[k + 1] = x_values[RK[k]]
                                     /\ RHS_quantiles[k + 1] = quantiles[RK[k]]
            /\ \A v \in {x_values[k] : k \in 1..Len(x_values)}
                         \cup {Unsorted[k] : k \in 1..Len(Unsorted)} :
                  Cardinality({k \in 1..Len(x_values) : x_values[k] = v})
                    = Cardinality({k \in 1..Len(Unsorted) : Unsorted[k] = v})
            /\ NoNaN(x_values) =>
                  /\ Ascending(x_values)
                  /\ LK = [k \in 1..Len(LK) |-> k]
                  /\ RK = [k \in 1..Len(RK) |-> Len(LK) + k]

\* C9 as stated: the level paired with a value is the level at a position the
\* value had BEFORE the sort.
C9_AsStated ==
    RowCompleted =>
        /\ \A k \in 1..Len(LHS_values) - 1 :
              \E j \in 1..Len(Unsorted) : /\ Unsorted[j] = LHS_values[k]
                                          /\ LHS_quantiles[k] = quantiles[j]
        /\ \A k \in 2..Len(RHS_values) :
              \E j \in 1..Len(Unsorted) : /\ Unsorted[j] = RHS_values[k]
                                          /\ RHS_quantiles[k] = quantiles[j]

\* a completed row whose predictions came in no order
C9_Witness ==
    /\ pc = "returned"
    /\ OneRow
    /\ NoNaN(x_values)
    /\ submission[1] = FramedRow(55, -25, 0)
    /\ y_true = 15
    /\ LHS_quantiles[3] = quantiles[3]

\* C10: for a ground truth strictly between -30 and 60 and any 21 predicted
\* values, both partitions are non-empty and the row raises no IndexError.
C10_PartitionsNonEmpty ==
    (RowSeen /\ InRange(y_true)) =>
        /\ err # "IndexError"
        /\ LHS_values # <<>>
        /\ RHS_values # <<>>

\* all 21 predictions above 60, or NaN, or below -30
C10_Witness ==
    /\ pc = "returned"
    /\ OneRow
    /\ InRange(y_true)
    /\ submission[1] \in {ConstRow(65), ConstRow(NaN), ConstRow(-35)}

====
